---- MODULE Spec2Model ----
(***************************************************************************)
(* cleanrepo (src/cli.js): classification of local and remote git branches *)
(* into "merged" and "stale" deletion candidates, interactive selection,   *)
(* deletion with per-branch failure accounting, dry run, and the final     *)
(* summary.  One run of the main async IIFE is modelled as a sequence of   *)
(* steps; git is modelled by a commit graph, the local refs, the remote    *)
(* server refs and the remote-tracking refs.                               *)
(***************************************************************************)
EXTENDS Integers, Sequences, FiniteSets, TLC

VARIABLES
    \* ---- configuration (argv) ----
    dryRun,          \* argv['dry-run']
    deleteRemote,    \* argv.remote
    argvStale,       \* argv.stale: [kind |-> "undef" | "bare" | "int" | "text",
                     \*              val |-> n]
    \* ---- the repository and the clock ----
    localRefs,       \* refs/heads/*           : function, branch name -> tip commit
    trackRefs,       \* refs/remotes/origin/*  : function, short name -> tip commit
    serverRefs,      \* branches on the remote : function, short name -> tip commit
    head,            \* checked-out local branch, "" when HEAD is detached
    originHead,      \* the branch refs/remotes/origin/HEAD points at, ""
                     \* when the clone has no such symbolic ref
    clock,           \* Date.now() : [sec, ms]
    faults,          \* git queries that failed so far in this run
    \* ---- the main IIFE ----
    pc,
    currentBranch,
    localMergedToDelete, localStaleToDelete,
    remoteMergedToDelete, remoteStaleToDelete,
    handledLocalBranches, handledRemoteBranches,
    remoteBranchTips,   \* the Map of line 335, filled by step 3a
    totalLocalDeleted, totalLocalFailed,
    totalRemoteDeleted, totalRemoteFailed,
    batch,           \* the selection being deleted: [cat, todo, deleted, failed]
    \* ---- observations of the run ----
    selectedOf,      \* category -> what selectBranchesToDelete returned
    prompted,        \* categories for which inquirer.prompt was shown
    listed,          \* category -> branches printed by the dry-run listing
    cmdLog,          \* mutating git commands issued, in order
    staleNow,        \* scope -> the Date.now() read by its stale step
    queryOk,         \* classification step -> its git queries returned output
    tsUnknown,       \* scope -> branches warned "Could not get timestamp"
    tsSilent,        \* scope -> branches passed over without a timestamp
                     \* and without that warning
    handledRead,     \* scope -> what the skip test of its stale loop saw:
                     \* [reads |-> the values of the handled set it read,
                     \*  skipped |-> the branches it skipped as handled]
    interrupt,       \* the interrupt received at a prompt, if any
    initLocal, initTrack,   \* the branch inventories before the run
    exitCode

vars == << dryRun, deleteRemote, argvStale, localRefs, trackRefs, serverRefs,
           head, originHead, remoteBranchTips, clock, faults, pc, currentBranch,
           localMergedToDelete, localStaleToDelete,
           remoteMergedToDelete, remoteStaleToDelete,
           handledLocalBranches, handledRemoteBranches,
           totalLocalDeleted, totalLocalFailed,
           totalRemoteDeleted, totalRemoteFailed, batch,
           selectedOf, prompted, listed, cmdLog, staleNow, queryOk, tsUnknown, tsSilent, handledRead,
           initLocal, initTrack, exitCode, interrupt >>

----------------------------------------------------------------------------
(* Configuration constants of the program.                                 *)

baseBranch == "main"
remoteName == "origin"
DefaultStaleDays == 120
DaySeconds == 24 * 60 * 60

----------------------------------------------------------------------------
(* Bounds of the model.                                                    *)

\* how many git queries (fetch, listings, log, timestamps) may fail in a run
MaxFaults == 1
\* how many times the clock may advance between the two classifications
MaxTicks == 1
\* milliseconds added by one advance of the clock
TickMs == 1000

----------------------------------------------------------------------------
(* The repository the runs start from.                                     *)

Features == {"f1", "f2"}
Names == Features \cup {baseBranch}
\* the short name of the symbolic ref under refs/remotes/origin
SymbolicName == "HEAD"
\* git lists refs sorted by name, upper case before lower case
NameOrder == << SymbolicName, "f1", "f2", "main" >>

(* The commit graph.  Mainline of the base (first parents): 6 -> 4 -> 1.   *)
(*   1 : root                                                              *)
(*   2 : side branch, merged by 4 as its second parent                     *)
(*   3 : side branch, second parent of the side merge 5 and third parent   *)
(*       of the octopus merge 6                                            *)
(*   4 : mainline merge of 2                                               *)
(*   5 : a merge made on a side branch, merged by 6 as its second parent   *)
(*   6 : octopus merge, tip of the base branch                             *)
Commits == 1..6
Parents ==
    [c \in Commits |->
        CASE c = 1 -> << >>
          [] c = 2 -> << 1 >>
          [] c = 3 -> << 1 >>
          [] c = 4 -> << 1, 2 >>
          [] c = 5 -> << 2, 3 >>
          [] c = 6 -> << 4, 5, 3 >>]
\* the base branch, where it exists, points at the latest commit
BaseTip == CHOOSE c \in Commits : \A d \in Commits : d <= c

Now0 == 200 * DaySeconds
(* Committer timestamps (%ct).  With --stale 1 read at Now0 the threshold  *)
(* is Now0 - DaySeconds.                                                   *)
CommitTime ==
    [c \in Commits |->
        CASE c = 1 -> Now0 - 121 * DaySeconds
          [] c = 2 -> Now0 - DaySeconds - 1
          [] c = 3 -> Now0 - DaySeconds
          [] c = 4 -> Now0 - DaySeconds + 1
          [] c = 5 -> Now0 - DaySeconds + 1
          [] c = 6 -> Now0 - DaySeconds + 2]

----------------------------------------------------------------------------
(* Helpers on refs and listings.                                           *)

\* the sequence s without its elements outside the set S, order kept
Restrict(s, S) == SelectSeq(s, LAMBDA x : x \in S)

\* the names of S in the order git lists them
Listing(S) == Restrict(NameOrder, S)

Range(s) == { s[i] : i \in 1..Len(s) }

\* a ref map without the branch b
DropRef(refs, b) == [n \in (DOMAIN refs) \ {b} |-> refs[n]]

\* all ref maps over the names of S with tips drawn from T
RefMaps(S, T) == UNION { [D -> T] : D \in SUBSET S }

----------------------------------------------------------------------------
(* git queries, as functions of the repository.                            *)

\* git log <tip> --first-parent : the first-parent chain starting at tip
RECURSIVE FirstParentChain(_)
FirstParentChain(c) ==
    IF Parents[c] = << >> THEN << c >>
    ELSE << c >> \o FirstParentChain(Parents[c][1])

\* git log <base> --merges --first-parent --pretty=format:"%P" :
\* one line per merge commit of the mainline, holding its parents in order
GitLogMergesFirstParent(tip) ==
    LET chain  == FirstParentChain(tip)
        merges == SelectSeq(chain, LAMBDA c : Len(Parents[c]) >= 2)
    IN  [i \in 1..Len(merges) |-> Parents[merges[i]]]

\* A ref name as git prints it (%(refname:short)) is modelled by its path:
\* << "f1" >> for the local branch f1, << "origin", "f1" >> for origin/f1.
RefName(remote, short) == IF remote THEN << remoteName, short >> ELSE << short >>

\* refs/remotes/origin/HEAD is listed among the remote-tracking refs when it
\* exists and the branch it points at does
HeadListed(refs, remote) == remote /\ originHead \in DOMAIN refs

\* what git branch -r prints after "origin/" for the symbolic ref pointing
\* at target: origin/HEAD -> origin/<target>
ArrowName(target) == SymbolicName \o " -> " \o remoteName \o "/" \o target

\* branchName.includes('->')
HasArrow(name) == \E t \in Names : name = ArrowName(t)

\* git branch [-r] --format='%(refname:short) %(objectname)' :
\* one line << refname, hash >> per ref, sorted by name; with --format the
\* symbolic ref origin/HEAD is printed like a branch, with the hash of the
\* commit it resolves to (upper case sorts before lower case)
GitBranchTips(refs, remote) ==
    LET names == Listing(DOMAIN refs)
        lines == [i \in 1..Len(names) |->
                     << RefName(remote, names[i]), refs[names[i]] >>]
    IN  IF HeadListed(refs, remote)
          THEN << << RefName(remote, SymbolicName), refs[originHead] >> >> \o lines
          ELSE lines

\* git branch --format="%(refname:short)" / git branch -r : the ref names;
\* without --format the symbolic ref is printed with its target
GitBranchNames(refs, remote) ==
    LET names == Listing(DOMAIN refs)
        lines == [i \in 1..Len(names) |-> RefName(remote, names[i])]
    IN  IF HeadListed(refs, remote)
          THEN << RefName(remote, ArrowName(originHead)) >> \o lines
          ELSE lines

\* git --no-pager log -1 --format=%ct <branch> : the committer time of the tip
GitCommitTime(refs, short) == CommitTime[refs[short]]

----------------------------------------------------------------------------
(* Helper functions of cli.js.                                             *)

\* the values --stale is given as text that is not a number to yargs; an
\* argvStale of kind "text" names one of them by its position
StaleTexts == << << "x" >>, << "1", "x" >> >>

DigitChars == << "0", "1", "2", "3", "4", "5", "6", "7", "8", "9" >>
IsDigit(ch) == \E d \in 1..10 : DigitChars[d] = ch
DigitValue(ch) == (CHOOSE d \in 1..10 : DigitChars[d] = ch) - 1

\* the decimal digits of a natural number
RECURSIVE Decimal(_)
Decimal(n) ==
    IF n < 10 THEN << DigitChars[n + 1] >>
    ELSE Append(Decimal(n \div 10), DigitChars[(n % 10) + 1])

\* String(argv.stale), the text parseInt works on: yargs gives true for the
\* bare flag, a number for a numeric value and the text otherwise
StaleString ==
    CASE argvStale.kind = "bare" -> << "t", "r", "u", "e" >>
      [] argvStale.kind = "int"  -> Decimal(argvStale.val)
      [] argvStale.kind = "text" -> StaleTexts[argvStale.val]
      [] OTHER                   -> << >>

\* the number written by the digits chars starts with, acc being the value
\* of the digits read so far
RECURSIVE DigitPrefix(_, _)
DigitPrefix(chars, acc) ==
    IF chars = << >> \/ ~IsDigit(chars[1]) THEN acc
    ELSE DigitPrefix(Tail(chars), acc * 10 + DigitValue(chars[1]))

\* parseInt(text, 10) : the leading digits as a number, NaN without any
parseInt(chars) ==
    IF chars = << >> \/ ~IsDigit(chars[1]) THEN [nan |-> TRUE, val |-> 0]
    ELSE [nan |-> FALSE, val |-> DigitPrefix(chars, 0)]

\* mutation of actualStaleDays: a value that is not a number is not
\* replaced by the default
actualStaleDays_NoDefault ==
    IF argvStale.kind = "undef" THEN DefaultStaleDays
    ELSE parseInt(StaleString).val

\* lines 40-44 : actualStaleDays = parseInt(argv.stale, 10) when the flag was
\* passed, 120 otherwise; NaN is replaced by 120
actualStaleDays ==
    IF argvStale.kind = "undef" THEN DefaultStaleDays
    ELSE LET parsed == parseInt(StaleString)
         IN  IF parsed.nan THEN DefaultStaleDays ELSE parsed.val

\* mutation of StaleRequested: the stale steps run whenever the number of
\* days is positive
StaleRequested_PositiveDays == actualStaleDays > 0

\* the stale steps run only when the flag was passed
StaleRequested == argvStale.kind # "undef"

\* branchName.startsWith(remoteName + '/') ? branchName.substring(..) : branchName
StripRemote(refname) ==
    IF Len(refname) >= 2 /\ refname[1] = remoteName THEN refname[2] ELSE refname[1]

\* getBranchTipMap : the Map name -> hash built from the output lines; a
\* failed command (ok = FALSE) is turned into empty output by
\* runCommand(.., true) and gives the empty Map.  A name holding "->" is
\* left out (line 116)
getBranchTipMap(lines, remote, ok) ==
    IF ~ok \/ lines = << >> THEN << >>
    ELSE LET short(i) == IF remote THEN StripRemote(lines[i][1]) ELSE lines[i][1][1]
             names    == { short(i) : i \in { j \in 1..Len(lines) : ~HasArrow(short(j)) } }
             last(n)  == CHOOSE i \in 1..Len(lines) :
                            /\ short(i) = n
                            /\ \A j \in 1..Len(lines) : short(j) = n => j <= i
         IN  [n \in names |-> lines[last(n)][2]]

\* mutation of getDirectlyMergedCommitHashes: the first parent is recorded
getDirectlyMergedCommitHashes_FirstParent(lines, ok) ==
    IF ~ok \/ lines = << >> THEN {}
    ELSE { lines[i][1] : i \in { j \in 1..Len(lines) : Len(lines[j]) > 1 } }

\* mutation of getDirectlyMergedCommitHashes: every parent after the first
\* is recorded
getDirectlyMergedCommitHashes_OtherParents(lines, ok) ==
    IF ~ok \/ lines = << >> THEN {}
    ELSE UNION { { lines[i][k] : k \in 2..Len(lines[i]) } : i \in 1..Len(lines) }

\* getDirectlyMergedCommitHashes : the second parent of every output line
\* that has more than one parent; empty on failure or empty output
getDirectlyMergedCommitHashes(lines, ok) ==
    IF ~ok \/ lines = << >> THEN {}
    ELSE { lines[i][2] : i \in { j \in 1..Len(lines) : Len(lines[j]) > 1 } }

\* mutation of staleThreshold: the days are converted as hours
staleThreshold_Hours(now) ==
    [sec |-> now.sec - actualStaleDays * 60 * 60, ms |-> now.ms]

\* staleThreshold = Date.now()/1000 - actualStaleDays*24*60*60, kept as
\* whole seconds and the milliseconds of Date.now()
staleThreshold(now) ==
    [sec |-> now.sec - actualStaleDays * DaySeconds, ms |-> now.ms]

\* mutation of isStale: the comparison is strict
isStale_Strict(commitTimestamp, threshold) == commitTimestamp < threshold.sec

\* isStale = commitTimestamp <= staleThreshold  (timestamps are integers,
\* 0 <= ms < 1000, so the fraction never decides the comparison)
isStale(commitTimestamp, threshold) == commitTimestamp <= threshold.sec

\* what the timestamp command of a branch gives: its output, an error, or
\* output that is empty or not a number.  runCommand hands the command line
\* to the shell (execSync): for a listed name "origin/HEAD -> origin/<b>"
\* the shell takes "> origin/<b>" as a redirection of the output, so that
\* command never returns a timestamp; it is taken to fail, the file
\* origin/<b> not being creatable in the work tree
TimestampResults == {"time", "failed", "garbled"}
TimestampResult(short, bad) ==
    IF short \in bad.failed THEN "failed"
    ELSE IF short \in bad.garbled THEN "garbled"
    ELSE IF HasArrow(short) THEN "failed"
    ELSE "time"

\* getBranchCommitTimestamp : parseInt of the command's output, 0 when the
\* command fails.  parseInt of empty or non-numeric output is NaN, for which
\* both tests of the caller (> 0, === 0) are false: it is modelled by a
\* negative number, which the two tests treat alike
getBranchCommitTimestamp(refs, short, result) ==
    CASE result = "failed"  -> 0
      [] result = "garbled" -> -1
      [] OTHER              -> GitCommitTime(refs, short)

\* lines 207-212 : local tips that are a merged hash, except the base branch
\* and the current branch
localMergedOf(tips, hashes, current) ==
    { b \in DOMAIN tips : tips[b] \in hashes /\ b # baseBranch /\ b # current }

\* mutation of remoteMergedOf: the local checkout is kept out of the remote
\* candidates too
remoteMergedOf_NotCurrent(tips, hashes) ==
    { b \in DOMAIN tips :
        tips[b] \in hashes /\ b # baseBranch /\ b # currentBranch }

\* lines 349-354 : remote tips that are a merged hash, except the base branch
remoteMergedOf(tips, hashes) ==
    { b \in DOMAIN tips : tips[b] \in hashes /\ b # baseBranch }

\* mutation of staleSkip: the base branch is not passed over
staleSkip_NoBase(short, handledSet) == short \in handledSet

\* lines 230, 375 : the branches a stale loop passes over
staleSkip(short, handledSet) == short = baseBranch \/ short \in handledSet

\* mutation of staleAdd: merged candidates are not kept out
staleAdd_NoMerged(ts, threshold, short, merged) == isStale(ts, threshold)

\* mutation of staleAdd: in a dry run the branch is only printed
staleAdd_SkippedInDryRun(ts, threshold, short, merged) ==
    ~dryRun /\ isStale(ts, threshold) /\ short \notin merged

\* lines 236-240, 382-385 : a branch with a known timestamp becomes a stale
\* candidate when it is stale and not already a merged candidate
staleAdd(ts, threshold, short, merged) ==
    isStale(ts, threshold) /\ short \notin merged

\* what the test of lines 230, 375 reads: "||" evaluates handled.has(short)
\* only for a branch that is not the base; the value of the handled set at
\* that moment is recorded, and the branch if the test finds it there
skipTestSeen(short, acc) ==
    IF short = baseBranch THEN acc
    ELSE [acc EXCEPT !.reads = @ \cup {acc.handled},
                     !.skipped = IF short \in acc.handled
                                   THEN @ \cup {short} ELSE @]

\* the body of the two "for (const branch of ...)" stale loops: names are the
\* listed ref names, acc = [stale, handled, unknown, silent, reads, skipped]
\* is what the loop has built so far, tsFail = [failed, garbled] the
\* branches whose timestamp command fails or prints no number
RECURSIVE staleLoop(_, _, _, _, _, _, _)
staleLoop(names, remote, merged, threshold, refs, tsFail, acc) ==
    IF names = << >> THEN acc
    ELSE LET short == IF remote THEN names[1][2] ELSE names[1][1]
             rest  == Tail(names)
             ts    == getBranchCommitTimestamp(refs, short,
                                                   TimestampResult(short, tsFail))
             seen  == skipTestSeen(short, acc)
         IN  IF staleSkip(short, acc.handled)
               THEN staleLoop(rest, remote, merged, threshold, refs, tsFail, seen)
             ELSE IF ts > 0
               THEN IF staleAdd(ts, threshold, short, merged)
                      THEN staleLoop(rest, remote, merged, threshold, refs, tsFail,
                               [seen EXCEPT !.stale = @ \cup {short},
                                            !.handled = @ \cup {short}])
                      ELSE staleLoop(rest, remote, merged, threshold, refs, tsFail, seen)
             ELSE IF ts = 0
               THEN staleLoop(rest, remote, merged, threshold, refs, tsFail,
                        [seen EXCEPT !.unknown = @ \cup {short}])
             ELSE staleLoop(rest, remote, merged, threshold, refs, tsFail,
                      [seen EXCEPT !.silent = @ \cup {short}])

\* lines 370 : the listed remote names kept by the filter
remoteListed(names) ==
    SelectSeq(names, LAMBDA n :
        /\ Len(n) >= 2 /\ n[1] = remoteName
        /\ n # << "refs", "remotes", remoteName, baseBranch >>)

----------------------------------------------------------------------------
(* The state before the run.                                               *)

Categories == {"lm", "ls", "rm", "rs"}
Scopes == {"local", "remote"}
NoBatch == [cat |-> "", todo |-> << >>, deleted |-> 0, failed |-> 0]
\* no interrupt so far; otherwise the category of the pending prompt, the
\* number of commands issued and the prompts shown when it arrived
NoInterrupt == [cat |-> "", cmds |-> 0, prompts |-> {}]
\* no stale loop has tested a branch against the handled set
NothingRead == [reads |-> {}, skipped |-> {}]

StaleArgs == { [kind |-> "undef", val |-> 0], [kind |-> "bare", val |-> 0],
               [kind |-> "int", val |-> 1], [kind |-> "int", val |-> 0] }
                 \cup { [kind |-> "text", val |-> i] : i \in 1..Len(StaleTexts) }

\* tips a feature branch may point at: f1 at a merged commit just older than
\* one day or at the commit exactly one day old, f2 at the root, at a merged
\* commit just younger than one day or at the tip of the base
FeatureTips == ("f1" :> {2, 3}) @@ ("f2" :> {1, 5, 6})
\* the base branch at BaseTip or absent, each feature branch at one of its
\* tips or absent
RichRefs ==
    { r \in RefMaps(Names, Commits) :
        /\ baseBranch \in DOMAIN r => r[baseBranch] = BaseTip
        /\ \A f \in Features \cap DOMAIN r : r[f] \in FeatureTips[f] }
\* plain repositories: the base with one merged branch, the base with one
\* old unmerged branch, no branch at all
PlainRefs ==
    { (baseBranch :> BaseTip) @@ ("f1" :> 2),
      (baseBranch :> BaseTip) @@ ("f2" :> 1),
      << >> }
\* one scope ranges over the rich repositories while the other one is plain
RepoPairs ==
    (RichRefs \X PlainRefs) \cup (PlainRefs \X RichRefs)
\* feature branches that may be checked out.  HEAD may also be detached; a
\* checkout of the base branch is not looked at separately, the program
\* treating it as it treats a detached HEAD (the base is excluded from every
\* candidate set by name)
Checkouts == {"f1"}
\* a remote-tracking ref whose branch is gone from the remote
GoneRefs == RefMaps({"f2"}, {1})
\* the branches refs/remotes/origin/HEAD may point at: the remote's default
\* branch is the base, or a feature branch
HeadTargets == {baseBranch, "f1"}

Init ==
    /\ dryRun \in BOOLEAN
    /\ deleteRemote \in BOOLEAN
    /\ argvStale \in StaleArgs
    \* a --stale value that is not a number is looked at in local runs
    /\ argvStale.kind = "text" => ~deleteRemote
    \* the bare flag and --stale 1 are looked at in local runs and in dry
    \* runs, --stale 0 in every kind of run
    /\ (argvStale.kind = "bare" \/ argvStale = [kind |-> "int", val |-> 1])
          => (~deleteRemote \/ dryRun)
    /\ \E rp \in RepoPairs : localRefs = rp[1] /\ serverRefs = rp[2]
    /\ \E g \in GoneRefs :
          /\ DOMAIN g \cap DOMAIN serverRefs = {}
          \* a left-over tracking ref is looked at next to the rich remotes
          /\ g # << >> => serverRefs \notin PlainRefs
          /\ trackRefs = serverRefs @@ g
    /\ head \in (DOMAIN localRefs \cap Checkouts) \cup {""}
    /\ originHead \in (DOMAIN serverRefs \cap HeadTargets) \cup {""}
    \* the symbolic ref is looked at in --remote runs of a clone without
    \* local branches
    /\ originHead # "" => deleteRemote /\ localRefs = << >>
    /\ clock = [sec |-> Now0, ms |-> 0]
    /\ faults = 0
    /\ pc = "prune"
    /\ currentBranch = ""
    /\ localMergedToDelete = {} /\ localStaleToDelete = {}
    /\ remoteMergedToDelete = {} /\ remoteStaleToDelete = {}
    /\ handledLocalBranches = {} /\ handledRemoteBranches = {}
    /\ remoteBranchTips = << >>
    /\ totalLocalDeleted = 0 /\ totalLocalFailed = 0
    /\ totalRemoteDeleted = 0 /\ totalRemoteFailed = 0
    /\ batch = NoBatch
    /\ selectedOf = [c \in Categories |-> {}]
    /\ prompted = {}
    /\ listed = [c \in Categories |-> {}]
    /\ cmdLog = << >>
    /\ staleNow = [s \in Scopes |-> [sec |-> 0, ms |-> 0]]
    /\ queryOk = {}
    /\ tsUnknown = [s \in Scopes |-> {}]
    /\ tsSilent = [s \in Scopes |-> {}]
    /\ handledRead = [s \in Scopes |-> NothingRead]
    /\ interrupt = NoInterrupt
    /\ initLocal = localRefs
    /\ initTrack = trackRefs
    /\ exitCode = -1

config == << dryRun, deleteRemote, argvStale >>
repo == << localRefs, trackRefs, serverRefs, head, originHead >>
candidates == << localMergedToDelete, localStaleToDelete,
                 remoteMergedToDelete, remoteStaleToDelete >>
handled == << handledLocalBranches, handledRemoteBranches >>
totals == << totalLocalDeleted, totalLocalFailed,
             totalRemoteDeleted, totalRemoteFailed >>
before == << initLocal, initTrack >>

----------------------------------------------------------------------------
(* The steps of the main IIFE.                                             *)

Log(cmd, cat, branch, ok) ==
    Append(cmdLog, [cmd |-> cmd, cat |-> cat, branch |-> branch, ok |-> ok])

\* the git queries of a step: failed of them fail, within the bound
Fault(failed) ==
    /\ faults + failed <= MaxFaults
    /\ faults' = faults + failed
B2N(b) == IF b THEN 0 ELSE 1

\* mutation of Fatal: the main catch ends the process with status 0
Fatal_ExitZero ==
    /\ pc' = "fatal"
    /\ exitCode' = 0

\* the catch of the main try: print the error, process.exit(1)
Fatal ==
    /\ pc' = "fatal"
    /\ exitCode' = 1

\* git fetch origin --prune : the tracking refs become the remote's branches
FetchPrune(ok) ==
    /\ cmdLog' = Log("fetch --prune", "", "", ok)
    /\ trackRefs' = IF ok THEN serverRefs ELSE trackRefs

\* Step 1 (lines 181-183): the initial prune, not guarded by a try of its own
InitialPrune ==
    /\ pc = "prune"
    /\ \E ok \in BOOLEAN :
          /\ Fault(B2N(ok))
          /\ FetchPrune(ok)
          /\ IF ok THEN pc' = "localMerged" /\ UNCHANGED exitCode ELSE Fatal
    /\ UNCHANGED << config, localRefs, serverRefs, head, originHead, clock, currentBranch,
                    candidates, handled, totals, batch, selectedOf, prompted,
                    listed, staleNow, queryOk, tsUnknown, tsSilent, handledRead, remoteBranchTips, before, interrupt >>

\* mutation of MergedCheckSkipped: the error of the base verification is
\* thrown on to the main catch
MergedCheckSkipped_Rethrown(next) == Fatal

\* the catch of a merged check (lines 213-215, 355-357): a warning is
\* printed and the run goes on with the next step
MergedCheckSkipped(next) ==
    /\ pc' = next
    /\ UNCHANGED exitCode

\* mutation of MarkHandled: the merged candidates are marked as handled
MarkHandled_Merged(handledSet, merged) == handledSet \cup merged

\* lines 207-212, 347-352 : the merged check adds to the merged candidate set
\* only, the handled set of the scope stays as it is
MarkHandled(handledSet, merged) == handledSet

\* Step 2a (lines 196-215): local branches merged into the local base
LocalMergedClassify ==
    /\ pc = "localMerged"
    /\ \E okTips \in BOOLEAN, okLog \in BOOLEAN :
          IF baseBranch \in DOMAIN localRefs
            THEN LET tips   == getBranchTipMap(GitBranchTips(localRefs, FALSE),
                                               FALSE, okTips)
                     hashes == getDirectlyMergedCommitHashes(
                                   GitLogMergesFirstParent(localRefs[baseBranch]),
                                   okLog)
                 IN  /\ Fault(B2N(okTips) + B2N(okLog))
                     /\ currentBranch' = head
                     /\ localMergedToDelete' = localMergedOf(tips, hashes, head)
                     /\ queryOk' = IF okTips /\ okLog
                                     THEN queryOk \cup {"lm"} ELSE queryOk
                     /\ pc' = "localStale"
                     /\ UNCHANGED exitCode
            ELSE \* show-ref --verify fails: the catch skips the merged check
                 /\ okTips /\ okLog
                 /\ MergedCheckSkipped("localStale")
                 /\ UNCHANGED << currentBranch, localMergedToDelete, queryOk,
                                 faults >>
    /\ handledLocalBranches' =
          MarkHandled(handledLocalBranches, localMergedToDelete')
    /\ UNCHANGED << config, repo, clock, localStaleToDelete,
                    remoteMergedToDelete, remoteStaleToDelete,
                    handledRemoteBranches, totals,
                    batch, selectedOf, prompted, listed, cmdLog, staleNow,
                    tsUnknown, tsSilent, handledRead, remoteBranchTips, before, interrupt >>

\* mutation of StaleCheckSkipped: the error of the listing is thrown on to
\* the main catch
StaleCheckSkipped_Rethrown(next) == Fatal

\* the catch of a stale check (lines 258-260, 402-404): a warning is
\* printed and the run goes on with the next step
StaleCheckSkipped(next) ==
    /\ pc' = next
    /\ UNCHANGED exitCode

\* Step 2b (lines 218-261): local stale branches, when --stale was passed
LocalStaleClassify ==
    /\ pc = "localStale"
    /\ IF StaleRequested
         THEN \E okList \in BOOLEAN,
                 failed \in SUBSET (DOMAIN localRefs \ {baseBranch}),
                 garbled \in SUBSET (DOMAIN localRefs \ {baseBranch}) :
              LET tsFail == [failed |-> failed, garbled |-> garbled] IN
                 /\ failed \cap garbled = {}
                 /\ Fault(B2N(okList) + Cardinality(failed) + Cardinality(garbled))
                 /\ staleNow' = [staleNow EXCEPT !["local"] = clock]
                 /\ IF okList
                      THEN LET r == staleLoop(GitBranchNames(localRefs, FALSE), FALSE,
                                        localMergedToDelete, staleThreshold(clock),
                                        localRefs, tsFail,
                                        [stale |-> localStaleToDelete,
                                         handled |-> handledLocalBranches,
                                         unknown |-> {}, silent |-> {},
                                         reads |-> {}, skipped |-> {}])
                           IN  /\ tsSilent' = [tsSilent EXCEPT !["local"] = r.silent]
                               /\ handledRead' = [handledRead EXCEPT !["local"] =
                                     [reads |-> r.reads, skipped |-> r.skipped]]
                               /\ localStaleToDelete' = r.stale
                               /\ handledLocalBranches' = r.handled
                               /\ tsUnknown' = [tsUnknown EXCEPT !["local"] = r.unknown]
                               /\ queryOk' = queryOk \cup {"ls"}
                               /\ pc' = "lmSelect"
                               /\ UNCHANGED exitCode
                      ELSE \* the listing fails: the catch skips the stale check
                           /\ failed = {} /\ garbled = {}
                           /\ StaleCheckSkipped("lmSelect")
                           /\ UNCHANGED << localStaleToDelete, handledLocalBranches,
                                           tsUnknown, tsSilent, handledRead, queryOk >>
         ELSE /\ pc' = "lmSelect"
              /\ UNCHANGED << staleNow, localStaleToDelete, handledLocalBranches,
                              tsUnknown, tsSilent, handledRead, queryOk, faults, exitCode >>
    /\ UNCHANGED << config, repo, clock, currentBranch, localMergedToDelete,
                    remoteMergedToDelete, remoteStaleToDelete,
                    handledRemoteBranches, totals, batch, selectedOf, prompted,
                    listed, cmdLog, remoteBranchTips, before, interrupt >>

\* the candidate set of a category
CandidatesOf(c) ==
    CASE c = "lm" -> localMergedToDelete
      [] c = "ls" -> localStaleToDelete
      [] c = "rm" -> remoteMergedToDelete
      [] c = "rs" -> remoteStaleToDelete

IsLocal(c) == c \in {"lm", "ls"}

\* mutation of DeleteCommandOf: local merged branches are force-deleted
DeleteCommandOf_ForceMerged(c) ==
    IF IsLocal(c) THEN "branch -D" ELSE "push --delete"

\* lines 186-188 : localMergedDeleteFn, localStaleDeleteFn, remoteDeleteFn
DeleteCommandOf(c) ==
    CASE c = "lm" -> "branch -d"
      [] c = "ls" -> "branch -D"
      [] c = "rm" -> "push --delete"
      [] c = "rs" -> "push --delete"

SelectPc(c) ==
    CASE c = "lm" -> "lmSelect" [] c = "ls" -> "lsSelect"
      [] c = "rm" -> "rmSelect" [] c = "rs" -> "rsSelect"

DeletePc(c) ==
    CASE c = "lm" -> "lmDelete" [] c = "ls" -> "lsDelete"
      [] c = "rm" -> "rmDelete" [] c = "rs" -> "rsDelete"

\* mutation of AfterPc: the remote steps run before the local stale
\* selection
AfterPc_RemoteBeforeLocalStale(c) ==
    CASE c = "lm" -> IF deleteRemote THEN "remoteMerged" ELSE "lsSelect"
      [] c = "ls" -> IF deleteRemote THEN "finalPrune" ELSE "summary"
      [] c = "rm" -> "rsSelect"
      [] c = "rs" -> "lsSelect"

\* mutation of AfterPc: the remote steps are run without --remote too
AfterPc_RemoteAlways(c) ==
    CASE c = "lm" -> "lsSelect"
      [] c = "ls" -> "remoteMerged"
      [] c = "rm" -> "rsSelect"
      [] c = "rs" -> "finalPrune"

\* the step that follows the deletions of a category
AfterPc(c) ==
    CASE c = "lm" -> "lsSelect"
      [] c = "ls" -> IF deleteRemote THEN "remoteMerged" ELSE "summary"
      [] c = "rm" -> "rsSelect"
      [] c = "rs" -> "finalPrune"

\* time has passed since the local classification when the remote stale
\* step reads the clock
ElapsedMs == (clock.sec - Now0) * 1000 + clock.ms
Tick ==
    /\ pc = "remoteStale"
    /\ ElapsedMs \div TickMs < MaxTicks
    /\ clock' = [sec |-> clock.sec + (clock.ms + TickMs) \div 1000,
                 ms  |-> (clock.ms + TickMs) % 1000]
    /\ StaleRequested /\ deleteRemote
    /\ UNCHANGED << config, repo, faults, pc, currentBranch, candidates, handled,
                    totals, batch, selectedOf, prompted, listed, cmdLog, staleNow,
                    queryOk, tsUnknown, tsSilent, handledRead, remoteBranchTips, before, interrupt, exitCode >>

\* the "if (dryRun)" branches of steps 2c and 3c: the candidates are printed
DryRunList(c) ==
    /\ pc = SelectPc(c)
    /\ dryRun
    /\ listed' = [listed EXCEPT ![c] = CandidatesOf(c)]
    /\ pc' = AfterPc(c)
    /\ UNCHANGED << config, repo, clock, faults, currentBranch, candidates,
                    handled, totals, batch, selectedOf, prompted, cmdLog,
                    staleNow, queryOk, tsUnknown, tsSilent, handledRead, remoteBranchTips, before, interrupt, exitCode >>

\* mutation of BatchOf: the loop goes through all the candidates
BatchOf_AllCandidates(c, sel) ==
    [cat |-> c, todo |-> Listing(CandidatesOf(c)), deleted |-> 0, failed |-> 0]

\* "for (const branch of ...Selected)" : a deletion loop goes through what
\* the prompt returned
BatchOf(c, sel) ==
    [cat |-> c, todo |-> Listing(sel), deleted |-> 0, failed |-> 0]

\* mutation of SelectBranches: the prompt and the deletions are not skipped
\* in a dry run
SelectBranches_InDryRun(c) ==
    /\ pc = SelectPc(c)
    /\ IF CandidatesOf(c) = {}
         THEN /\ pc' = AfterPc(c)
              /\ UNCHANGED << selectedOf, prompted, batch >>
         ELSE \E sel \in SUBSET CandidatesOf(c) :
                 /\ prompted' = prompted \cup {c}
                 /\ selectedOf' = [selectedOf EXCEPT ![c] = sel]
                 /\ IF sel = {}
                      THEN pc' = AfterPc(c) /\ UNCHANGED batch
                      ELSE /\ pc' = DeletePc(c)
                           /\ batch' = BatchOf(c, sel)
    /\ UNCHANGED << config, repo, clock, faults, currentBranch, candidates,
                    handled, totals, listed, cmdLog, staleNow, queryOk,
                    tsUnknown, tsSilent, handledRead, remoteBranchTips, before, interrupt, exitCode >>

\* selectBranchesToDelete (lines 145-167) and the test of its result: no
\* prompt for an empty candidate set; otherwise the operator returns a
\* subset of the choices, in the order of the choices
SelectBranches(c) ==
    /\ pc = SelectPc(c)
    /\ ~dryRun
    /\ IF CandidatesOf(c) = {}
         THEN /\ pc' = AfterPc(c)
              /\ UNCHANGED << selectedOf, prompted, batch >>
         ELSE \E sel \in SUBSET CandidatesOf(c) :
                 /\ prompted' = prompted \cup {c}
                 /\ selectedOf' = [selectedOf EXCEPT ![c] = sel]
                 /\ IF sel = {}
                      THEN pc' = AfterPc(c) /\ UNCHANGED batch
                      ELSE /\ pc' = DeletePc(c)
                           /\ batch' = BatchOf(c, sel)
    /\ UNCHANGED << config, repo, clock, faults, currentBranch, candidates,
                    handled, totals, listed, cmdLog, staleNow, queryOk,
                    tsUnknown, tsSilent, handledRead, remoteBranchTips, before, interrupt, exitCode >>

\* mutation of AbortOnInterrupt: the interrupt only cancels the pending
\* prompt, the run goes on with the next category
AbortOnInterrupt_CancelsPrompt(c) ==
    /\ pc' = AfterPc(c)
    /\ UNCHANGED exitCode

\* what an interrupt at "await inquirer.prompt" (line 155) leaves to the
\* program: the prompt never resolves because the process is ended by the
\* signal, or it rejects and the error reaches the main catch (497-501),
\* which exits with status 1
AbortOnInterrupt(c) ==
    /\ pc' = "interrupted"
    /\ exitCode' \in {1, 130}

\* an interrupt arrives while the prompt of category c is pending
Interrupt(c) ==
    /\ pc = SelectPc(c)
    /\ ~dryRun
    /\ CandidatesOf(c) # {}
    /\ prompted' = prompted \cup {c}
    /\ interrupt' = [cat |-> c, cmds |-> Len(cmdLog), prompts |-> prompted']
    /\ AbortOnInterrupt(c)
    /\ UNCHANGED << config, repo, clock, faults, currentBranch, candidates,
                    handled, totals, batch, selectedOf, listed, cmdLog,
                    staleNow, queryOk, tsUnknown, tsSilent, handledRead, remoteBranchTips, before >>

\* whether git can carry out the delete command at all; the remote has no
\* branch named HEAD, a push that deletes HEAD is refused
CanDelete(c, branch) ==
    IF IsLocal(c) THEN branch \in DOMAIN localRefs /\ branch # head
    ELSE branch \in DOMAIN serverRefs

\* mutation of NextTodo: a failed delete ends the loop
NextTodo_AbortOnFailure(todo, ok) == IF ok THEN Tail(todo) ELSE << >>

\* mutation of NextTodo: a branch whose delete failed is tried again
NextTodo_RetryFailed(todo, ok) == IF ok THEN Tail(todo) ELSE todo

\* the try/catch inside each "for (const branch of ...Selected)": the catch
\* only counts the failure, the loop goes on with the remaining branches
NextTodo(todo, ok) == Tail(todo)

\* mutation of FailedCount: a failed delete is not counted
FailedCount_Swallowed(failed, ok) == failed

\* ...FailedCount++ in the catch of a deletion loop
FailedCount(failed, ok) == failed + (IF ok THEN 0 ELSE 1)

\* ...DeletedCount++ after a delete command that did not throw
DeletedCount(deleted, ok) == deleted + (IF ok THEN 1 ELSE 0)

\* mutation of CandidatesKept: a branch is taken out of its candidate set
\* when its delete command is issued
CandidatesKept_Pruned(c, branch) ==
    /\ localMergedToDelete' =
          IF c = "lm" THEN localMergedToDelete \ {branch} ELSE localMergedToDelete
    /\ localStaleToDelete' =
          IF c = "ls" THEN localStaleToDelete \ {branch} ELSE localStaleToDelete
    /\ remoteMergedToDelete' =
          IF c = "rm" THEN remoteMergedToDelete \ {branch} ELSE remoteMergedToDelete
    /\ remoteStaleToDelete' =
          IF c = "rs" THEN remoteStaleToDelete \ {branch} ELSE remoteStaleToDelete

\* the deletion loops go through the array the prompt returned and write
\* to the handled sets and the counters only: the candidate Sets stay as
\* the classification left them
CandidatesKept(c, branch) == UNCHANGED candidates

\* one iteration of a deletion loop (lines 280-290, 313-323, 423-433,
\* 456-465); after the last one the counts are added to the totals
DeleteBranch(c) ==
    /\ pc = DeletePc(c)
    /\ batch.todo # << >>
    /\ \E ok \in BOOLEAN :
       LET branch == Head(batch.todo)
           rest   == NextTodo(batch.todo, ok)
       IN
            /\ ok => CanDelete(c, branch)
            /\ cmdLog' = Log(DeleteCommandOf(c), c, branch, ok)
            /\ CandidatesKept(c, branch)
            /\ handledLocalBranches' =
                  IF c = "lm" THEN handledLocalBranches \cup {branch}
                  ELSE handledLocalBranches
            /\ handledRemoteBranches' =
                  IF c = "rm" THEN handledRemoteBranches \cup {branch}
                  ELSE handledRemoteBranches
            /\ localRefs' = IF ok /\ IsLocal(c) THEN DropRef(localRefs, branch)
                            ELSE localRefs
            /\ serverRefs' = IF ok /\ ~IsLocal(c) THEN DropRef(serverRefs, branch)
                             ELSE serverRefs
            /\ trackRefs' = IF ok /\ ~IsLocal(c) THEN DropRef(trackRefs, branch)
                            ELSE trackRefs
            /\ LET deleted == DeletedCount(batch.deleted, ok)
                   failed  == FailedCount(batch.failed, ok)
               IN  IF rest # << >>
                     THEN /\ batch' = [batch EXCEPT !.todo = rest,
                                         !.deleted = deleted, !.failed = failed]
                          /\ UNCHANGED << pc, totals >>
                     ELSE /\ batch' = NoBatch
                          /\ pc' = AfterPc(c)
                          /\ totalLocalDeleted' = totalLocalDeleted
                                + (IF IsLocal(c) THEN deleted ELSE 0)
                          /\ totalLocalFailed' = totalLocalFailed
                                + (IF IsLocal(c) THEN failed ELSE 0)
                          /\ totalRemoteDeleted' = totalRemoteDeleted
                                + (IF IsLocal(c) THEN 0 ELSE deleted)
                          /\ totalRemoteFailed' = totalRemoteFailed
                                + (IF IsLocal(c) THEN 0 ELSE failed)
    /\ UNCHANGED << config, head, originHead, clock, faults, currentBranch,
                    selectedOf, prompted, listed, staleNow, queryOk, tsUnknown, tsSilent, handledRead,
                    remoteBranchTips, before, interrupt, exitCode >>

\* Step 3a (lines 341-357): remote branches merged into origin/<base>
RemoteMergedClassify ==
    /\ pc = "remoteMerged"
    /\ \E okTips \in BOOLEAN, okLog \in BOOLEAN :
          LET tips == getBranchTipMap(GitBranchTips(trackRefs, TRUE), TRUE, okTips)
          IN  IF baseBranch \in DOMAIN trackRefs
                THEN LET hashes == getDirectlyMergedCommitHashes(
                                       GitLogMergesFirstParent(trackRefs[baseBranch]),
                                       okLog)
                     IN  /\ Fault(B2N(okTips) + B2N(okLog))
                         /\ remoteBranchTips' = tips
                         /\ remoteMergedToDelete' = remoteMergedOf(tips, hashes)
                         /\ queryOk' = IF okTips /\ okLog
                                         THEN queryOk \cup {"rm"} ELSE queryOk
                         /\ pc' = "remoteStale"
                         /\ UNCHANGED exitCode
                ELSE \* show-ref --verify fails: the catch skips the merged check
                     /\ okTips /\ okLog
                     /\ remoteBranchTips' = tips
                     /\ MergedCheckSkipped("remoteStale")
                     /\ UNCHANGED << remoteMergedToDelete, queryOk, faults >>
    /\ handledRemoteBranches' =
          MarkHandled(handledRemoteBranches, remoteMergedToDelete')
    /\ UNCHANGED << config, repo, clock, currentBranch, localMergedToDelete,
                    localStaleToDelete, remoteStaleToDelete,
                    handledLocalBranches, totals,
                    batch, selectedOf, prompted, listed, cmdLog, staleNow,
                    tsUnknown, tsSilent, handledRead, before, interrupt >>

\* Step 3b (lines 359-405): remote stale branches, when --stale was passed
RemoteStaleClassify ==
    /\ pc = "remoteStale"
    /\ IF StaleRequested /\ deleteRemote
         THEN \E okList \in BOOLEAN,
                 failed \in SUBSET (DOMAIN trackRefs \ {baseBranch}),
                 garbled \in SUBSET (DOMAIN trackRefs \ {baseBranch}) :
              LET tsFail == [failed |-> failed, garbled |-> garbled] IN
                 /\ failed \cap garbled = {}
                 /\ Fault(B2N(okList) + Cardinality(failed) + Cardinality(garbled))
                 /\ staleNow' = [staleNow EXCEPT !["remote"] = clock]
                 /\ IF okList
                      THEN LET r == staleLoop(
                                        remoteListed(GitBranchNames(trackRefs, TRUE)),
                                        TRUE, remoteMergedToDelete,
                                        staleThreshold(clock), trackRefs, tsFail,
                                        [stale |-> remoteStaleToDelete,
                                         handled |-> handledRemoteBranches,
                                         unknown |-> {}, silent |-> {},
                                         reads |-> {}, skipped |-> {}])
                           IN  /\ tsSilent' = [tsSilent EXCEPT !["remote"] = r.silent]
                               /\ handledRead' = [handledRead EXCEPT !["remote"] =
                                     [reads |-> r.reads, skipped |-> r.skipped]]
                               /\ remoteStaleToDelete' = r.stale
                               /\ handledRemoteBranches' = r.handled
                               /\ tsUnknown' = [tsUnknown EXCEPT !["remote"] = r.unknown]
                               /\ queryOk' = queryOk \cup {"rs"}
                               /\ pc' = "rmSelect"
                               /\ UNCHANGED exitCode
                      ELSE \* the listing fails: the catch skips the stale check
                           /\ failed = {} /\ garbled = {}
                           /\ StaleCheckSkipped("rmSelect")
                           /\ UNCHANGED << remoteStaleToDelete, handledRemoteBranches,
                                           tsUnknown, tsSilent, handledRead, queryOk >>
         ELSE /\ pc' = "rmSelect"
              /\ UNCHANGED << staleNow, remoteStaleToDelete, handledRemoteBranches,
                              tsUnknown, tsSilent, handledRead, queryOk, faults, exitCode >>
    /\ UNCHANGED << config, repo, clock, currentBranch, localMergedToDelete,
                    localStaleToDelete, remoteMergedToDelete,
                    handledLocalBranches, totals, batch, selectedOf, prompted,
                    listed, cmdLog, remoteBranchTips, before, interrupt >>

\* mutation of FinalPruneNeeded: only successful remote deletions count
FinalPruneNeeded_DeletedOnly == ~dryRun /\ totalRemoteDeleted > 0

\* line 474 : !dryRun && (totalRemoteDeleted > 0 || totalRemoteFailed > 0)
FinalPruneNeeded ==
    ~dryRun /\ (totalRemoteDeleted > 0 \/ totalRemoteFailed > 0)

\* Step 4 (lines 473-479): the final prune, when a remote deletion was
\* attempted; not guarded by a try of its own
FinalPrune ==
    /\ pc = "finalPrune"
    /\ IF FinalPruneNeeded
         THEN \E ok \in BOOLEAN :
                 /\ Fault(B2N(ok))
                 /\ FetchPrune(ok)
                 /\ IF ok THEN pc' = "summary" /\ UNCHANGED exitCode ELSE Fatal
         ELSE /\ pc' = "summary"
              /\ UNCHANGED << cmdLog, trackRefs, exitCode, faults >>
    /\ UNCHANGED << config, localRefs, serverRefs, head, originHead, clock, currentBranch,
                    candidates, handled, totals, batch, selectedOf, prompted,
                    listed, staleNow, queryOk, tsUnknown, tsSilent, handledRead, remoteBranchTips, before, interrupt >>

\* Summary (lines 484-495): the counts are printed and the run ends
Summary ==
    /\ pc = "summary"
    /\ pc' = "done"
    /\ exitCode' = 0
    /\ UNCHANGED << config, repo, clock, faults, currentBranch, candidates,
                    handled, totals, batch, selectedOf, prompted, listed, cmdLog,
                    staleNow, queryOk, tsUnknown, tsSilent, handledRead, remoteBranchTips, before, interrupt >>

Next ==
    \/ InitialPrune
    \/ LocalMergedClassify
    \/ LocalStaleClassify
    \/ Tick
    \/ \E c \in Categories : DryRunList(c)
    \/ \E c \in Categories : SelectBranches(c)
    \/ \E c \in Categories : Interrupt(c)
    \/ \E c \in Categories : DeleteBranch(c)
    \/ RemoteMergedClassify
    \/ RemoteStaleClassify
    \/ FinalPrune
    \/ Summary

Spec == Init /\ [][Next]_vars

\* A run in which every external command returns and every pending prompt
\* is answered or interrupted: the main IIFE is a single thread of control,
\* so whenever a step can be taken one is taken.
FairSpec == Spec /\ WF_vars(Next)

----------------------------------------------------------------------------
(* Vocabulary of the properties.                                           *)

\* the delete commands issued so far
Deletes == { i \in 1..Len(cmdLog) : cmdLog[i].cmd # "fetch --prune" }

\* the local classification has just finished / the remote one has
AfterLocalMerged  == pc = "localStale"
AfterLocalStale   == pc = "lmSelect"
AfterRemoteMerged == pc = "remoteStale"
AfterRemoteStale  == pc = "rmSelect"

\* h is the second listed parent of a merge commit of the first-parent
\* mainline that starts at tip
SecondParentOnMainline(h, tip) ==
    \E m \in Range(FirstParentChain(tip)) :
        Len(Parents[m]) >= 2 /\ Parents[m][2] = h

\* the same, for a merge commit with exactly two parents
TwoParentMergeOf(h, tip) ==
    \E m \in Range(FirstParentChain(tip)) :
        Len(Parents[m]) = 2 /\ Parents[m][2] = h

\* the threshold now - thresholdDays*86400 of a scope, now being the clock
\* value that scope's stale step read (whole seconds and milliseconds)
ThresholdOf(scope) ==
    [sec |-> staleNow[scope].sec - actualStaleDays * 86400,
     ms  |-> staleNow[scope].ms]

\* a timestamp (whole seconds) against a threshold [sec, ms]
AtThreshold(ts, thr)    == ts = thr.sec /\ thr.ms = 0
EarlierThan(ts, thr)    == ts < thr.sec \/ (ts = thr.sec /\ thr.ms > 0)
LaterThan(ts, thr)      == ts > thr.sec

\* the remote-tracking refs with the commit each resolves to: the branches
\* and, where it exists, the symbolic ref
ListedRemote ==
    IF HeadListed(trackRefs, TRUE)
      THEN trackRefs @@ (SymbolicName :> trackRefs[originHead])
      ELSE trackRefs

\* the commit a listed remote name resolves to
RemoteTipOf(b) == ListedRemote[b]

\* the timestamp of a branch of a scope is known to the stale step
KnownTime(scope, b) == b \notin tsUnknown[scope] \cup tsSilent[scope]

----------------------------------------------------------------------------
(* Properties.                                                             *)

\* C1: the currently checked-out local branch is never a member of the local
\* merged candidate set nor of the local stale candidate set.
C1_CurrentNeverCandidate ==
    head \notin localMergedToDelete \cup localStaleToDelete

\* C2: the base branch is never a member of the merged or the stale
\* candidate set of either scope, and no delete command (git branch -d,
\* git branch -D, git push origin --delete) is ever issued for it.
C2_BaseNeverCandidate ==
    /\ \A c \in Categories : baseBranch \notin CandidatesOf(c)
    /\ \A i \in Deletes : cmdLog[i].branch # baseBranch

\* C2 witness: a finished run with --stale 0 (every known timestamp is old
\* enough) in which the base exists in both scopes, both stale steps found
\* candidates and a delete command was issued.
C2_Witness ==
    /\ pc = "done"
    /\ argvStale = [kind |-> "int", val |-> 0]
    /\ baseBranch \in DOMAIN initLocal /\ baseBranch \in DOMAIN trackRefs
    /\ {"ls", "rs"} \subseteq queryOk
    /\ localStaleToDelete # {} /\ remoteStaleToDelete # {}
    /\ Deletes # {}

\* C3: after classification the merged and the stale candidate set of a
\* scope are disjoint; a branch that qualifies as both is only in merged.
C3_MergedStaleDisjoint ==
    /\ localMergedToDelete \cap localStaleToDelete = {}
    /\ remoteMergedToDelete \cap remoteStaleToDelete = {}

\* C3 witness: right after the local stale step, a merged candidate whose
\* known timestamp is older than the threshold, next to a stale candidate.
C3_Witness ==
    /\ AfterLocalStale
    /\ "ls" \in queryOk
    /\ localStaleToDelete # {}
    /\ \E b \in localMergedToDelete :
          /\ KnownTime("local", b)
          /\ EarlierThan(CommitTime[localRefs[b]], ThresholdOf("local"))

\* C4: in a dry run no delete command is ever issued, the four counters are
\* 0 at Summary, and every classified candidate has been listed.
C4_DryRunDeletesNothing ==
    dryRun =>
        /\ Deletes = {}
        /\ totalLocalDeleted = 0 /\ totalLocalFailed = 0
        /\ totalRemoteDeleted = 0 /\ totalRemoteFailed = 0
        /\ pc \in {"summary", "done"} =>
              \A c \in Categories : listed[c] = CandidatesOf(c)

\* C4 witness: --dry-run --remote --stale finished with 2 local merged and
\* 1 remote stale candidates.
C4_Witness ==
    /\ dryRun /\ deleteRemote /\ argvStale.kind = "bare"
    /\ pc = "done"
    /\ Cardinality(localMergedToDelete) = 2
    /\ Cardinality(remoteStaleToDelete) = 1

\* C5: a dry run leaves the set of local branches and the set of
\* remote-tracking branches as they were before the run.
C5_DryRunLeavesBranches ==
    dryRun => (localRefs = initLocal /\ trackRefs = initTrack)

\* C6: when a two-parent merge commit M lies on the first-parent mainline of
\* the scope's base and the tip of a branch B of the scope is the second
\* parent of M, B is in the scope's merged candidate set, provided the base
\* exists in the scope, B is not the base and (local) not the current
\* checkout.  Stated of the state right after the merged step whose branch
\* listing and merge log returned their output.
C6_MergedComplete ==
    /\ (AfterLocalMerged /\ "lm" \in queryOk) =>
          \A B \in DOMAIN localRefs :
             ( /\ B # baseBranch /\ B # head
               /\ TwoParentMergeOf(localRefs[B], localRefs[baseBranch]) )
             => B \in localMergedToDelete
    /\ (AfterRemoteMerged /\ "rm" \in queryOk) =>
          \A B \in DOMAIN trackRefs :
             ( /\ B # baseBranch
               /\ TwoParentMergeOf(trackRefs[B], trackRefs[baseBranch]) )
             => B \in remoteMergedToDelete

\* C6 witness: right after the remote merged step, with both merged steps
\* having read their listings, a local and a remote branch at the second
\* parent of a two-parent mainline merge are merged candidates.
C6_Witness ==
    /\ AfterRemoteMerged
    /\ {"lm", "rm"} \subseteq queryOk
    /\ \E B \in localMergedToDelete :
          TwoParentMergeOf(initLocal[B], initLocal[baseBranch])
    /\ \E B \in remoteMergedToDelete :
          TwoParentMergeOf(trackRefs[B], trackRefs[baseBranch])

\* C7: a branch is in a scope's merged candidate set only if its tip is the
\* second listed parent of a merge commit of the first-parent mainline of
\* the scope's base; a tip that is a first parent, a third parent, a commit
\* inside a side branch or the base tip is never classified merged.
C7_MergedSound ==
    /\ AfterLocalMerged =>
          \A B \in localMergedToDelete :
             /\ B \in DOMAIN localRefs /\ baseBranch \in DOMAIN localRefs
             /\ SecondParentOnMainline(localRefs[B], localRefs[baseBranch])
    /\ AfterRemoteMerged =>
          \A B \in remoteMergedToDelete :
             /\ B \in DOMAIN trackRefs \cup {SymbolicName}
             /\ baseBranch \in DOMAIN trackRefs
             /\ SecondParentOnMainline(RemoteTipOf(B), trackRefs[baseBranch])

\* C7 witness: right after the local merged step, f1 sits on commit 3 (third
\* parent of the octopus merge and second parent of a side-branch merge) and
\* is not a candidate while f2, on the second parent of the octopus, is.
C7_Witness ==
    /\ AfterLocalMerged
    /\ "lm" \in queryOk
    /\ "f1" \in DOMAIN localRefs /\ localRefs["f1"] = 3
    /\ head = ""
    /\ localMergedToDelete = {"f2"}

C9_ThresholdClassification ==
    /\ (AfterLocalStale /\ "ls" \in queryOk) =>
          \A b \in DOMAIN localRefs :
             ( /\ b # baseBranch /\ b \notin localMergedToDelete
               /\ KnownTime("local", b)
               /\ EarlierThan(CommitTime[localRefs[b]], ThresholdOf("local")) )
             => b \in localStaleToDelete
    /\ AfterLocalStale =>
          \A b \in localStaleToDelete :
             ~LaterThan(CommitTime[localRefs[b]], ThresholdOf("local"))
    /\ (AfterRemoteStale /\ "rs" \in queryOk) =>
          \A b \in DOMAIN trackRefs :
             ( /\ b # baseBranch /\ b \notin remoteMergedToDelete
               /\ KnownTime("remote", b)
               /\ EarlierThan(CommitTime[trackRefs[b]], ThresholdOf("remote")) )
             => b \in remoteStaleToDelete
    /\ AfterRemoteStale =>
          \A b \in remoteStaleToDelete :
             ~LaterThan(CommitTime[trackRefs[b]], ThresholdOf("remote"))

\* C9 witness: right after the remote stale step of a --stale 1 run, one
\* remote branch is older than the threshold and stale while another one is
\* younger and not stale; the local stale step had found a candidate too.
C9_Witness ==
    /\ AfterRemoteStale
    /\ argvStale = [kind |-> "int", val |-> 1]
    /\ localStaleToDelete # {}
    /\ \E old \in remoteStaleToDelete :
          EarlierThan(CommitTime[trackRefs[old]], ThresholdOf("remote"))
    /\ \E young \in (DOMAIN trackRefs) \ {baseBranch} :
          /\ LaterThan(CommitTime[trackRefs[young]], ThresholdOf("remote"))
          /\ young \notin remoteStaleToDelete \cup remoteMergedToDelete

\* C10: in a run that is not a dry run every delete command targets a branch
\* that is a candidate of its category and that the operator returned from
\* that category's prompt; a candidate the operator unchecked is never the
\* target of a delete command of its scope.
C10_OnlySelectedDeleted ==
    /\ \A i \in Deletes :
          /\ cmdLog[i].cat \in prompted
          /\ cmdLog[i].branch \in CandidatesOf(cmdLog[i].cat)
          /\ cmdLog[i].branch \in selectedOf[cmdLog[i].cat]
    /\ \A c \in prompted : \A b \in CandidatesOf(c) \ selectedOf[c] :
          \A i \in Deletes :
             IsLocal(cmdLog[i].cat) = IsLocal(c) => cmdLog[i].branch # b

\* C10 witness: a finished run in which the operator kept one of two local
\* merged candidates checked, that one was the target of a delete command
\* and a remote candidate was deleted as well.
C10_Witness ==
    /\ pc = "done"
    /\ Cardinality(localMergedToDelete) = 2
    /\ Cardinality(selectedOf["lm"]) = 1
    /\ \E i \in Deletes : cmdLog[i].cat = "lm"
    /\ \E i \in Deletes : ~IsLocal(cmdLog[i].cat)

----------------------------------------------------------------------------
(* Vocabulary of the properties about deletion and the order of the steps. *)

\* the branches targeted by the delete commands of category c, in order
AttemptedOf(c) ==
    LET s == SelectSeq(cmdLog, LAMBDA e : e.cat = c)
    IN  [i \in 1..Len(s) |-> s[i].branch]

\* the branches of the running batch of category c still to be attempted
PendingOf(c) == IF batch.cat = c THEN batch.todo ELSE << >>

\* the delete commands of a scope that succeeded / that failed
DeletesOk(local) ==
    { i \in Deletes : IsLocal(cmdLog[i].cat) = local /\ cmdLog[i].ok }
DeletesFailed(local) ==
    { i \in Deletes : IsLocal(cmdLog[i].cat) = local /\ ~cmdLog[i].ok }

\* the git fetch origin --prune commands issued so far
Fetches == { i \in 1..Len(cmdLog) : cmdLog[i].cmd = "fetch --prune" }

\* the run has printed the summary, or is about to
AtSummary == pc \in {"summary", "done"}

\* C11: in each deletion batch every branch of the operator's selection is
\* attempted, in the order of the selection, even when the delete command of
\* an earlier branch of the batch failed; a delete failure never reaches the
\* fatal handler (a run ends fatal only on a failed git fetch).
C11_BatchNeverAborted ==
    /\ \A c \in Categories :
          c \in prompted =>
             AttemptedOf(c) \o PendingOf(c) = Listing(selectedOf[c])
    /\ pc = "fatal" =>
          /\ cmdLog # << >>
          /\ cmdLog[Len(cmdLog)].cmd = "fetch --prune"
          /\ ~cmdLog[Len(cmdLog)].ok

\* C11 witness: a finished run in which the first delete command of a batch
\* of two failed and the second branch of the batch was attempted after it.
C11_Witness ==
    /\ pc = "done"
    /\ \E c \in Categories : \E i \in Deletes :
          /\ Cardinality(selectedOf[c]) = 2
          /\ cmdLog[i].cat = c /\ ~cmdLog[i].ok
          /\ i + 1 \in Deletes /\ cmdLog[i + 1].cat = c

\* C12: at Summary, for each scope, deleted is the number of delete commands
\* of the scope that succeeded and failed the number that failed (so their
\* sum is the number of branches attempted); every branch counted deleted is
\* absent from the inventory and every branch counted failed is still there.
C12_PartialFailureAccounting ==
    AtSummary =>
        /\ totalLocalDeleted = Cardinality(DeletesOk(TRUE))
        /\ totalLocalFailed = Cardinality(DeletesFailed(TRUE))
        /\ totalRemoteDeleted = Cardinality(DeletesOk(FALSE))
        /\ totalRemoteFailed = Cardinality(DeletesFailed(FALSE))
        /\ \A i \in DeletesOk(TRUE) : cmdLog[i].branch \notin DOMAIN localRefs
        /\ \A i \in DeletesFailed(TRUE) : cmdLog[i].branch \in DOMAIN localRefs
        /\ \A i \in DeletesOk(FALSE) :
              cmdLog[i].branch \notin DOMAIN serverRefs \cup DOMAIN trackRefs
        \* (a refused delete of the symbolic ref leaves that ref in place)
        /\ \A i \in DeletesFailed(FALSE) :
              \/ cmdLog[i].branch \in DOMAIN serverRefs \cap DOMAIN trackRefs
              \/ cmdLog[i].branch = SymbolicName /\ originHead # ""

\* C12 witness: a finished run whose local merged batch held two branches,
\* the delete of one failing and of the other succeeding: deleted = 1,
\* failed = 1.
C12_Witness ==
    /\ pc = "done"
    /\ Cardinality(selectedOf["lm"]) = 2
    /\ selectedOf["ls"] = {}
    /\ totalLocalDeleted = 1 /\ totalLocalFailed = 1
    /\ \E i \in DeletesFailed(TRUE) : i + 1 \in DeletesOk(TRUE)

\* C13: git branch -D is issued only for branches of the local stale
\* candidate set; local merged candidates are deleted only with git branch
\* -d and a refused -d is never followed by a -D of the same branch; remote
\* candidates, merged or stale, are deleted only by git push origin --delete
\* of their short name.
C13_DeleteOperationPerCategory ==
    /\ \A i \in Deletes :
          /\ cmdLog[i].cmd = "branch -D" =>
                cmdLog[i].cat = "ls" /\ cmdLog[i].branch \in localStaleToDelete
          /\ cmdLog[i].cat = "lm" => cmdLog[i].cmd = "branch -d"
          /\ cmdLog[i].branch \in localMergedToDelete =>
                (IsLocal(cmdLog[i].cat) => cmdLog[i].cmd = "branch -d")
          /\ ~IsLocal(cmdLog[i].cat) =>
                /\ cmdLog[i].cmd = "push --delete"
                \* the name without "origin/", as the tip map and the
                \* stale loop hold it
                /\ cmdLog[i].branch \in Features \cup {SymbolicName}
    /\ \A i \in Deletes, j \in Deletes :
          ( /\ cmdLog[i].cmd = "branch -d" /\ ~cmdLog[i].ok
            /\ cmdLog[j].branch = cmdLog[i].branch )
          => cmdLog[j].cmd # "branch -D"

\* C13 witness: a finished run in which a git branch -d was refused, a git
\* branch -D was issued for a stale candidate and a remote branch was pushed
\* away.
C13_Witness ==
    /\ pc = "done"
    /\ \E i \in Deletes : cmdLog[i].cmd = "branch -d" /\ ~cmdLog[i].ok
    /\ \E i \in Deletes : cmdLog[i].cmd = "branch -D"
    /\ \E i \in Deletes : cmdLog[i].cmd = "push --delete"

\* the position of a step in the text of the main IIFE
StepOrder ==
    << "prune", "localMerged", "localStale", "lmSelect", "lmDelete",
       "lsSelect", "lsDelete", "remoteMerged", "remoteStale", "rmSelect",
       "rmDelete", "rsSelect", "rsDelete", "finalPrune", "summary", "done" >>
Rank(p) ==
    IF p \in {"fatal", "interrupted"} THEN Len(StepOrder)
    ELSE CHOOSE i \in 1..Len(StepOrder) : StepOrder[i] = p

\* the position of a logged command in the order of the steps
CmdRank(e) ==
    IF e.cmd = "fetch --prune" THEN Rank("prune") ELSE Rank(DeletePc(e.cat))

\* the remote scope has been queried or classified
RemoteTouched ==
    \/ {"rm", "rs"} \cap queryOk # {}
    \/ staleNow["remote"] # [sec |-> 0, ms |-> 0]
    \/ tsUnknown["remote"] # {}
    \/ remoteMergedToDelete \cup remoteStaleToDelete # {}

\* what holds of every state of a run that keeps the order of the steps
StepOrderKept ==
    \* the first command is the initial prune and deletes follow one that
    \* succeeded
    /\ cmdLog # << >> => cmdLog[1].cmd = "fetch --prune"
    /\ Deletes # {} => cmdLog[1].ok
    \* the delete commands come category by category, a later fetch is last
    /\ \A i \in Deletes, j \in Deletes :
          i < j => CmdRank(cmdLog[i]) <= CmdRank(cmdLog[j])
    /\ \A i \in Fetches : i = 1 \/ i = Len(cmdLog)
    \* local deletes only after local classification, remote queries and
    \* remote deletes only after the local select-and-delete
    /\ (\E i \in Deletes : IsLocal(cmdLog[i].cat)) =>
          Rank(pc) >= Rank("lmDelete")
    /\ (RemoteTouched \/ \E i \in Deletes : ~IsLocal(cmdLog[i].cat)) =>
          Rank(pc) >= Rank("remoteMerged")

\* what holds of every step of such a run
StepOrderStep ==
    \* the steps go forward only, so each is taken at most once
    /\ pc' # pc => Rank(pc') > Rank(pc)
    \* the candidate sets change in their classification step only
    /\ localMergedToDelete' # localMergedToDelete => pc = "localMerged"
    /\ localStaleToDelete' # localStaleToDelete => pc = "localStale"
    /\ remoteMergedToDelete' # remoteMergedToDelete => pc = "remoteMerged"
    /\ remoteStaleToDelete' # remoteStaleToDelete => pc = "remoteStale"
    \* a command is issued in its own step only
    /\ cmdLog' # cmdLog =>
          LET e == cmdLog'[Len(cmdLog')]
          IN  IF e.cmd = "fetch --prune" THEN pc \in {"prune", "finalPrune"}
              ELSE pc = DeletePc(e.cat)

\* C14: in every run the steps that occur do so in the order initial prune,
\* local merged classification, local stale classification, local
\* select-and-delete, remote merged classification, remote stale
\* classification, remote select-and-delete, final prune, Summary, each at
\* most once; no delete command precedes the initial prune, no local delete
\* precedes the end of local classification and no remote query or remote
\* delete precedes the end of the local select-and-delete.
C14_OrchestratorOrder == [](StepOrderKept) /\ [][StepOrderStep]_vars

\* C14 witness: a finished --remote --stale run that deleted local merged,
\* local stale and remote branches and ran the final prune.
C14_Witness ==
    /\ pc = "done"
    /\ \E i \in Deletes : cmdLog[i].cat = "lm"
    /\ \E i \in Deletes : cmdLog[i].cat = "ls"
    /\ \E i \in Deletes : ~IsLocal(cmdLog[i].cat)
    /\ "rs" \in queryOk
    /\ Cardinality(Fetches) = 2

\* the final prune has been run
FinalPruned == \E i \in Fetches : i > 1

\* a remote delete command has been attempted
RemoteDeleteAttempted == \E i \in Deletes : ~IsLocal(cmdLog[i].cat)

\* C15: the final prune (second git fetch origin --prune) is executed if and
\* only if --remote is given, the run is not a dry run and at least one
\* remote delete command was attempted, successfully or not; when it runs it
\* comes after the last remote delete command and before Summary.
C15_FinalPruneGating ==
    /\ AtSummary =>
          (FinalPruned <=> (deleteRemote /\ ~dryRun /\ RemoteDeleteAttempted))
    /\ FinalPruned =>
          /\ deleteRemote /\ ~dryRun /\ RemoteDeleteAttempted
          /\ Cardinality(Fetches) = 2
          /\ Len(cmdLog) \in Fetches
          /\ pc \in {"summary", "done", "fatal"}
    /\ (pc = "done" /\ FinalPruned) => cmdLog[Len(cmdLog)].ok

\* C15 witness: a finished run whose only remote delete command failed and
\* that ran the final prune nevertheless.
C15_Witness ==
    /\ pc = "done"
    /\ FinalPruned
    /\ totalRemoteDeleted = 0 /\ totalRemoteFailed = 1

----------------------------------------------------------------------------
(* Properties about degraded runs and the gating by flags.                 *)

\* the last command of the run so far is a git fetch that failed
LastFetchFailed ==
    /\ cmdLog # << >>
    /\ cmdLog[Len(cmdLog)].cmd = "fetch --prune"
    /\ ~cmdLog[Len(cmdLog)].ok

\* the branches of refs, other than the base and the branches of except,
\* whose tip is the second parent of a merge of the base's mainline
MergedInto(refs, except) ==
    { b \in (DOMAIN refs) \ ({baseBranch} \cup except) :
        SecondParentOnMainline(refs[b], refs[baseBranch]) }

\* the branches of refs whose known timestamp is not later than the
\* scope's threshold
OldIn(refs, scope) ==
    { b \in DOMAIN refs :
        KnownTime(scope, b) /\ ~LaterThan(CommitTime[refs[b]], ThresholdOf(scope)) }

\* C16: when the base branch does not exist in a scope, that scope's merged
\* candidate set is empty, the scope's stale classification still runs when
\* enabled, the other scope is classified normally, and the absence never
\* makes the run fatal: it goes on to Summary and exit status 0.
C16_MissingBaseDegradesMergeOnly ==
    /\ baseBranch \notin DOMAIN localRefs =>
          /\ localMergedToDelete = {}
          /\ (AfterLocalStale /\ StaleRequested) => staleNow["local"] = clock
          /\ (AfterLocalStale /\ "ls" \in queryOk) =>
                localStaleToDelete = OldIn(localRefs, "local")
          /\ (AfterRemoteMerged /\ "rm" \in queryOk) =>
                remoteMergedToDelete = MergedInto(ListedRemote, {})
    /\ baseBranch \notin DOMAIN trackRefs =>
          /\ remoteMergedToDelete = {}
          /\ (AfterRemoteStale /\ StaleRequested /\ deleteRemote) =>
                staleNow["remote"] = clock
          /\ (AfterRemoteStale /\ "rs" \in queryOk) =>
                remoteStaleToDelete = OldIn(trackRefs, "remote")
          /\ (AfterLocalMerged /\ "lm" \in queryOk) =>
                localMergedToDelete = MergedInto(localRefs, {head})
    /\ (baseBranch \notin DOMAIN localRefs \/ baseBranch \notin DOMAIN trackRefs) =>
          /\ pc = "fatal" => LastFetchFailed
          /\ pc = "done" => exitCode = 0

\* C16 witness: a finished --remote --stale run, exit status 0, in a
\* repository without a local base branch: no local merged candidate, a
\* local stale candidate, and a remote merged candidate.
C16_Witness ==
    /\ pc = "done" /\ exitCode = 0
    /\ baseBranch \notin DOMAIN localRefs
    /\ localMergedToDelete = {}
    /\ localStaleToDelete # {}
    /\ remoteMergedToDelete # {}

\* C17: when the remote cannot be queried, so that the remote commands
\* fail, the run does not end with a fatal error: a run whose initial git
\* fetch origin --prune failed is not in the fatal handler.
C17_UnavailableRemoteNotFatal ==
    (cmdLog # << >> /\ ~cmdLog[1].ok) => pc # "fatal"

\* C18: every run in which a delete command was attempted reaches Summary
\* and reports the counts; no later step, a failing final prune included,
\* ends the run before that.
C18_SummaryNeverLosesFailure ==
    Deletes # {} => pc # "fatal"

\* C19: without --remote no remote branch listing or remote base
\* verification is performed, both remote candidate sets stay empty, no git
\* push origin --delete is issued, no final prune is run and the remote
\* counters are 0 at Summary.
C19_RemoteGating ==
    ~deleteRemote =>
        /\ ~RemoteTouched
        /\ Rank(pc) < Rank("remoteMerged") \/ Rank(pc) >= Rank("summary")
        /\ remoteMergedToDelete = {} /\ remoteStaleToDelete = {}
        /\ {"rm", "rs"} \cap prompted = {}
        /\ listed["rm"] = {} /\ listed["rs"] = {}
        /\ ~RemoteDeleteAttempted
        /\ ~FinalPruned
        /\ totalRemoteDeleted = 0 /\ totalRemoteFailed = 0

\* C19 witness: a finished run without --remote that deleted a local branch
\* while the remote holds a branch merged into origin/<base>.
C19_Witness ==
    /\ ~deleteRemote
    /\ pc = "done"
    /\ DeletesOk(TRUE) # {}
    /\ baseBranch \in DOMAIN trackRefs
    /\ MergedInto(ListedRemote, {}) # {}

----------------------------------------------------------------------------
(* Properties about the stale threshold, timestamps, prompts and exits.    *)

\* the stale step of a scope has read the clock
StaleRan(scope) == staleNow[scope] # [sec |-> 0, ms |-> 0]

\* the stale candidate set of a scope
StaleOf(scope) ==
    IF scope = "local" THEN localStaleToDelete ELSE remoteStaleToDelete

\* the branches of a scope whose timestamp the stale step could not obtain
NoTimestamp(scope) == tsUnknown[scope] \cup tsSilent[scope]

\* C21: staleness classification runs only for a positive threshold: with
\* --stale 0 or a negative number of days no branch is placed in a stale
\* candidate set in any scope.
C21_StaleGatingByValue ==
    (argvStale.kind = "int" /\ argvStale.val <= 0) =>
        \A s \in Scopes : StaleOf(s) = {}

\* C22: within one run the threshold now - thresholdDays*86400 used to
\* classify the local branches is the same value as the one used to classify
\* the remote branches, whatever time elapses between the two steps.
C22_SingleNowSnapshot ==
    (StaleRan("local") /\ StaleRan("remote")) =>
        ThresholdOf("local") = ThresholdOf("remote")

\* C23: a branch whose last-commit timestamp cannot be obtained (the query
\* fails, or prints nothing or no number) is never placed in a stale
\* candidate set and gets the warning "Could not get timestamp".
C23_UnknownTimestampNeverStale ==
    \A s \in Scopes : \A b \in NoTimestamp(s) :
        /\ b \notin StaleOf(s)
        /\ b \in tsUnknown[s]

\* an interrupt has arrived at a pending prompt
Interrupted == interrupt.cat # ""

\* the process has ended / ended with a status other than 0
Exited == exitCode # -1
ExitedNonZero == exitCode \notin {-1, 0}

\* C24: if an interrupt arrives while a selection prompt is pending, no
\* delete command and no prune is issued after that point, none of the later
\* prompts is shown, and the process exits.
C24_InterruptAbortsRun ==
    Interrupted =>
        /\ pc = "interrupted"
        /\ Exited
        /\ Len(cmdLog) = interrupt.cmds
        /\ prompted = interrupt.prompts
        /\ batch = NoBatch

\* C24 witness: the interrupt arrived at the local merged prompt of a
\* --remote run that also had local stale candidates and a remote branch
\* merged into origin/<base>: none of them was prompted for or deleted.
C24_Witness ==
    /\ interrupt.cat = "lm"
    /\ localStaleToDelete # {}
    /\ deleteRemote
    /\ baseBranch \in DOMAIN trackRefs
    /\ MergedInto(ListedRemote, {}) # {}
    /\ Deletes = {}

\* C25 as written: a run that reaches Summary exits with status 0; the
\* process exits non-zero only when a command outside a guarded classify or
\* delete step has failed.
C25_NonZeroOnlyOnCommandFailure ==
    /\ pc = "done" => exitCode = 0
    /\ ExitedNonZero => (pc = "fatal" /\ LastFetchFailed)

\* C25 amended: a run that reaches Summary exits with status 0, also with
\* nothing to delete or with failed deletions; the process exits non-zero
\* only when a command outside a guarded classify or delete step has failed
\* (status 1, from the main catch) or when an interrupt at a pending prompt
\* has ended the run.
C25_ExitStatus ==
    /\ pc = "done" => exitCode = 0
    /\ pc = "fatal" => (exitCode = 1 /\ LastFetchFailed)
    /\ ExitedNonZero => (pc = "fatal" \/ (pc = "interrupted" /\ Interrupted))
    /\ Exited <=> pc \in {"done", "fatal", "interrupted"}

\* C25 witness: a finished run with exit status 0 in which a delete command
\* had failed.
C25_Witness ==
    /\ pc = "done" /\ exitCode = 0
    /\ DeletesFailed(TRUE) # {}
    /\ DeletesFailed(FALSE) # {}

\* C26: within one run each branch identity (scope, name) is the target of
\* at most one delete command and is offered in at most one selection
\* prompt.
C26_NoDoubleDeletionAttempt ==
    /\ \A i \in Deletes, j \in Deletes :
          ( /\ i # j
            /\ IsLocal(cmdLog[i].cat) = IsLocal(cmdLog[j].cat) )
          => cmdLog[i].branch # cmdLog[j].branch
    /\ \A c \in prompted, d \in prompted :
          (c # d /\ IsLocal(c) = IsLocal(d)) =>
             CandidatesOf(c) \cap CandidatesOf(d) = {}

\* C26 witness: a finished run that prompted for and deleted both local
\* merged and local stale branches, one merged candidate being older than
\* the stale threshold as well.
C26_Witness ==
    /\ pc = "done"
    /\ {"lm", "ls"} \subseteq prompted
    /\ \E i \in Deletes : cmdLog[i].cat = "lm"
    /\ \E i \in Deletes : cmdLog[i].cat = "ls"
    /\ \E b \in localMergedToDelete :
          /\ KnownTime("local", b)
          /\ EarlierThan(CommitTime[initLocal[b]], ThresholdOf("local"))

\* the stale step of a scope ran and its branch listing failed
ListingFailed(scope) ==
    /\ StaleRan(scope)
    /\ (IF scope = "local" THEN "ls" ELSE "rs") \notin queryOk

\* C27: if the branch listing of a stale classification fails, that scope's
\* stale candidate set stays empty, the merged candidate set already
\* computed for the scope is unchanged, and the run goes on to the scope's
\* select-and-delete and to Summary (it is fatal only on a failed fetch).
C27_ListingFailureDegradesOwnStep ==
    /\ ListingFailed("local") =>
          /\ localStaleToDelete = {} /\ NoTimestamp("local") = {}
          /\ (AfterLocalStale /\ "lm" \in queryOk) =>
                localMergedToDelete = MergedInto(localRefs, {head})
          /\ pc = "fatal" => LastFetchFailed
          /\ pc = "done" => exitCode = 0
    /\ ListingFailed("remote") =>
          /\ remoteStaleToDelete = {} /\ NoTimestamp("remote") = {}
          /\ (AfterRemoteStale /\ "rm" \in queryOk) =>
                remoteMergedToDelete = MergedInto(ListedRemote, {})
          /\ pc = "fatal" => LastFetchFailed
          /\ pc = "done" => exitCode = 0

\* C27 witness: a finished run whose local branch listing failed in the
\* stale step and that still deleted a local merged branch.
C27_Witness ==
    /\ pc = "done" /\ exitCode = 0
    /\ ListingFailed("local")
    /\ localMergedToDelete # {}
    /\ \E i \in DeletesOk(TRUE) : cmdLog[i].cat = "lm"

\* C28: when the operator declines at a selection prompt (confirms an empty
\* selection), no delete command is issued for that category or for any
\* later category of the run.
C28_CancellationAbortsPipeline ==
    \A c \in prompted :
        selectedOf[c] = {} =>
           \A i \in Deletes : CmdRank(cmdLog[i]) < Rank(DeletePc(c))

\* C29: the remote merged and remote stale candidate sets are determined by
\* the remote inventory, the history of the remote base, the remote
\* timestamps and the configuration alone: not by the local inventory, the
\* local checkout or what was classified, selected or deleted locally.
C29_ScopesIndependent ==
    /\ (AfterRemoteMerged /\ "rm" \in queryOk) =>
          remoteMergedToDelete = MergedInto(ListedRemote, {})
    /\ (AfterRemoteStale /\ "rs" \in queryOk) =>
          remoteStaleToDelete =
             (OldIn(trackRefs, "remote") \ {baseBranch}) \ remoteMergedToDelete

\* C29 witness: right after the remote merged step, the remote branch named
\* like the local checkout is a remote merged candidate, a local branch
\* having been deleted before.
C29_Witness ==
    /\ AfterRemoteMerged
    /\ head # "" /\ head \in remoteMergedToDelete
    /\ DeletesOk(TRUE) # {}

\* C30: a branch-tip listing or merge log whose output exceeds the buffer is
\* a hard failure and is never used as if it were empty output: whenever the
\* run goes on past a merged check whose base exists, the merged candidate
\* set is the one the complete output gives.
C30_OverflowIsHardFailure ==
    /\ (AfterLocalMerged /\ baseBranch \in DOMAIN localRefs) =>
          localMergedToDelete = MergedInto(localRefs, {head})
    /\ (AfterRemoteMerged /\ baseBranch \in DOMAIN trackRefs) =>
          remoteMergedToDelete = MergedInto(ListedRemote, {})

----------------------------------------------------------------------------
(* Properties about the listings, the options and the end of the run.      *)

\* the names under which the symbolic ref of the remote appears in a listing
SymbolicEntries == {SymbolicName} \cup { ArrowName(t) : t \in Names }

\* C31: a remote listing entry that is a symbolic pointer (origin/HEAD with
\* a hash, or origin/HEAD -> origin/<branch>) never yields a member of the
\* remote tip map, of the remote merged or of the remote stale candidate
\* set, and no timestamp query or delete command is issued for it.
C31_SymbolicPointersFiltered ==
    /\ DOMAIN remoteBranchTips \cap SymbolicEntries = {}
    /\ remoteMergedToDelete \cap SymbolicEntries = {}
    /\ remoteStaleToDelete \cap SymbolicEntries = {}
    \* a name the stale step has no timestamp for is a name it has queried
    /\ NoTimestamp("remote") \cap SymbolicEntries = {}
    /\ \A i \in Deletes : cmdLog[i].branch \notin SymbolicEntries

\* a prompt, a dry-run listing or a delete command of the scope has occurred
ScopeConsumed(local) ==
    \/ \E c \in prompted : IsLocal(c) = local
    \/ \E i \in Deletes : IsLocal(cmdLog[i].cat) = local
    \/ Rank(pc) > Rank(IF local THEN "lmSelect" ELSE "rmSelect")

\* both classification steps of the scope are over
ScopeClassified(local) ==
    Rank(pc) >= Rank(IF local THEN "lmSelect" ELSE "rmSelect")

\* what holds of every state: nothing of a scope is prompted for or deleted
\* before the scope's two classification steps are over
FrozenBeforeUse ==
    \A local \in BOOLEAN : ScopeConsumed(local) => ScopeClassified(local)

\* what holds of every step: once the classification of a scope is over its
\* two candidate sets stay as they are
FrozenStep ==
    /\ ScopeClassified(TRUE) =>
          UNCHANGED << localMergedToDelete, localStaleToDelete >>
    /\ ScopeClassified(FALSE) =>
          UNCHANGED << remoteMergedToDelete, remoteStaleToDelete >>

\* C32: in each scope the merged and the stale candidate set are both
\* computed before the first selection prompt or delete command of the
\* scope and neither is modified afterwards; the stale set is not recomputed
\* after the merged deletions of the scope.
C32_CandidatesFrozen == [](FrozenBeforeUse) /\ [][FrozenStep]_vars

\* C32 witness: a finished --stale run in which a local merged branch was
\* deleted while an unmerged old branch stayed a candidate of the stale set,
\* and the merged set still names the deleted branch.
C32_Witness ==
    /\ pc = "done"
    /\ "ls" \in queryOk
    /\ \E i \in DeletesOk(TRUE) :
          cmdLog[i].cat = "lm" /\ cmdLog[i].branch \in localMergedToDelete
    /\ localStaleToDelete # {}
    /\ \E i \in Deletes : cmdLog[i].cat = "rm"

\* --stale was given a text in which parseInt finds no number
StaleNotANumber ==
    argvStale.kind = "text" /\ ~IsDigit(StaleTexts[argvStale.val][1])

\* the local branches the local stale step has to find with a threshold of
\* days days: not the base, not a merged candidate, last commit known and
\* not later than the clock value the step read minus days*86400
LocalStaleWithin(days) ==
    { b \in (DOMAIN localRefs) \ ({baseBranch} \cup localMergedToDelete) :
        /\ KnownTime("local", b)
        /\ CommitTime[localRefs[b]] <= staleNow["local"].sec - days * 86400 }

\* the run has gone through step 2b (it did not end at the initial prune)
PastLocalStale ==
    /\ Rank(pc) > Rank("localStale")
    /\ cmdLog # << >> /\ cmdLog[1].ok

Deselected(c) ==
    IF c \in prompted /\ interrupt.cat # c
      THEN CandidatesOf(c) \ selectedOf[c]
      ELSE {}

\* the stale category of the scope of a merged category
StaleCategoryOf(c) == IF c = "lm" THEN "ls" ELSE "rs"

\* C34: a branch of a scope's merged candidate set that the operator
\* unchecks at the merged prompt is the target of no delete command of that
\* scope in the run, even when its last commit is older than the staleness
\* threshold: it is not offered again as stale, it is never force-deleted,
\* and it is still there afterwards.
C34_DeselectedMergedSurvives ==
    \A c \in {"lm", "rm"} : \A b \in Deselected(c) :
        /\ b \notin CandidatesOf(StaleCategoryOf(c))
        /\ \A i \in Deletes :
              IsLocal(cmdLog[i].cat) = IsLocal(c) => cmdLog[i].branch # b
        /\ IF IsLocal(c) THEN b \in DOMAIN localRefs
            ELSE b \in DOMAIN serverRefs \cup {SymbolicName}

\* C34 witness: a finished --stale run in which the operator unchecked a
\* local merged candidate older than the threshold, and a git branch -D was
\* issued for another branch.
C34_Witness ==
    /\ pc = "done"
    /\ "ls" \in queryOk
    /\ \E b \in Deselected("lm") :
          /\ KnownTime("local", b)
          /\ EarlierThan(CommitTime[localRefs[b]], ThresholdOf("local"))
    /\ \E i \in Deletes : cmdLog[i].cmd = "branch -D"

\* nothing has been selected for deletion: a dry run, or a run in which the
\* operator has left no branch checked
NothingSelected == \A c \in Categories : selectedOf[c] = {}

\* the candidate set of a category as the repository, the clock values read
\* by the stale steps and the outcome of the git queries give it; dry-run is
\* no part of it
ExpectedCandidates(c) ==
    CASE c \notin queryOk -> {}
      [] c = "lm" -> MergedInto(localRefs, {head})
      [] c = "ls" -> (OldIn(localRefs, "local") \ {baseBranch})
                        \ localMergedToDelete
      [] c = "rm" -> MergedInto(ListedRemote, {})
      [] c = "rs" -> (OldIn(trackRefs, "remote") \ {baseBranch})
                        \ remoteMergedToDelete

\* C35: for the same repository, the same now and the same --base, --remote
\* and --stale, the four candidate sets a dry run shows at Summary are those
\* of a normal run in which the operator selects nothing: in both, each set
\* is the same function of the repository, the clock and the options other
\* than --dry-run.
C35_ClassificationIgnoresDryRun ==
    (pc = "summary" /\ NothingSelected) =>
        \A c \in Categories : CandidatesOf(c) = ExpectedCandidates(c)

\* C35 witness: a normal run at Summary in which the operator was prompted
\* for local merged, local stale and remote merged candidates and left
\* nothing checked.
C35_Witness ==
    /\ ~dryRun /\ pc = "summary"
    /\ NothingSelected
    /\ {"lm", "ls", "rm"} \subseteq prompted
    /\ {"lm", "ls", "rm"} \subseteq queryOk

\* the delete commands of a category
DeletesOf(c) == { i \in Deletes : cmdLog[i].cat = c }

\* what holds of every state: a prompt was shown only in a run that is not a
\* dry run and for a candidate set that is not empty; for an empty candidate
\* set nothing is selected and no delete command of the category is issued
PromptGate ==
    \A c \in Categories :
        /\ c \in prompted => (~dryRun /\ CandidatesOf(c) # {})
        /\ (Rank(pc) > Rank(SelectPc(c)) /\ CandidatesOf(c) = {}) =>
              /\ c \notin prompted
              /\ selectedOf[c] = {}
              /\ DeletesOf(c) = {}

\* what holds of every step: the selection step of an empty candidate set
\* shows no prompt, issues no command and leaves the four counters alone
PromptGateStep ==
    \A c \in Categories :
        (pc = SelectPc(c) /\ CandidatesOf(c) = {}) =>
            UNCHANGED << prompted, selectedOf, cmdLog, totals, repo >>

\* C36: the selection prompt is invoked only in a run that is not a dry run
\* and only for a candidate set that is not empty; for an empty candidate set
\* selectBranchesToDelete returns the empty selection without prompting, no
\* delete command is issued for the category and the counters are unchanged.
C36_PromptGating == [](PromptGate) /\ [][PromptGateStep]_vars

\* C36 witness: a finished normal run in which the local merged set was
\* empty and passed over without a prompt while the operator was prompted
\* for the local stale set and a branch of it was deleted.
C36_Witness ==
    /\ ~dryRun /\ pc = "done"
    /\ localMergedToDelete = {} /\ "lm" \in queryOk
    /\ prompted = {"ls"}
    /\ DeletesOf("ls") # {}
    /\ totalLocalDeleted = 1

\* the process has ended: after the summary, in the main catch, or by the
\* interrupt of a prompt
Terminated == pc \in {"done", "fatal", "interrupted"}

\* the commands a run can issue at most: the two fetches and one delete
\* command for each candidate
CommandBudget ==
    2 + Cardinality(localMergedToDelete) + Cardinality(localStaleToDelete)
      + Cardinality(remoteMergedToDelete) + Cardinality(remoteStaleToDelete)

\* no step is entered again and a deletion loop gets shorter with each
\* command
NoReentry ==
    /\ pc' # pc => Rank(pc') > Rank(pc)
    /\ (pc' = pc /\ batch' # batch) => Len(batch'.todo) < Len(batch.todo)

\* the main catch (497-501) has run: after a command outside the guarded
\* steps failed, or after an interrupted prompt rejected
InFatalHandler ==
    \/ pc = "fatal"
    \/ pc = "interrupted" /\ exitCode = 1

\* C37 as written: every run eventually ends at Summary or in the fatal
\* handler, after finitely many commands, no branch being retried and no
\* step re-entered.
C37_EndsAtSummaryOrFatal ==
    /\ <>(pc = "done" \/ InFatalHandler)
    /\ [](Len(cmdLog) <= CommandBudget)
    /\ [][NoReentry]_vars

\* C37: every run in which the commands return and the prompts are answered
\* or interrupted eventually ends: after the summary, in the fatal handler,
\* or at the prompt that was interrupted; it issues finitely many commands,
\* retries no branch and re-enters no step.
C37_Termination ==
    /\ <>Terminated
    /\ [](Len(cmdLog) <= CommandBudget)
    /\ [][NoReentry]_vars

\* C37 witness: a run that ended after the summary having issued the two
\* fetches and delete commands of three categories.
C37_Witness ==
    /\ pc = "done" /\ exitCode = 0
    /\ Cardinality(Fetches) = 2
    /\ Cardinality({ cmdLog[i].cat : i \in Deletes }) >= 3

\* the handled set and the merged candidate set of a scope, and the step in
\* which its stale loop runs
HandledOf(scope) ==
    IF scope = "local" THEN handledLocalBranches ELSE handledRemoteBranches
MergedCandidatesOf(scope) ==
    IF scope = "local" THEN localMergedToDelete ELSE remoteMergedToDelete
StaleStepOf(scope) == IF scope = "local" THEN "localStale" ELSE "remoteStale"

\* the stale loop of the scope has tested at least one branch against the
\* handled set
LoopRead(scope) == handledRead[scope].reads # {}

\* C38 as written: the handled set is empty whenever a stale loop reads it,
\* and the test skips no branch.
C38_HandledEmptyWhenRead ==
    \A scope \in Scopes :
        /\ handledRead[scope].reads \subseteq {{}}
        /\ handledRead[scope].skipped = {}

\* C38: the handled set of a scope is empty until its stale loop runs; every
\* value the loop's skip test reads holds only stale candidates the loop
\* itself has added before, none of them a merged candidate, the first
\* value read being the empty set; the test skips no branch, and no stale
\* candidate is a merged candidate of its scope.
C38_HandledSetsIdle ==
    \A scope \in Scopes :
        /\ Rank(pc) <= Rank(StaleStepOf(scope)) => HandledOf(scope) = {}
        /\ LoopRead(scope) => {} \in handledRead[scope].reads
        /\ \A seen \in handledRead[scope].reads :
              /\ seen \subseteq StaleOf(scope)
              /\ seen \cap MergedCandidatesOf(scope) = {}
        /\ handledRead[scope].skipped = {}
        /\ StaleOf(scope) \cap MergedCandidatesOf(scope) = {}

\* C38 witness: a finished run whose local stale loop tested a merged
\* candidate against an empty handled set, and whose remote stale loop found
\* two stale branches, the second one tested against a handled set that
\* held the first.
C38_Witness ==
    /\ pc = "done"
    /\ {"lm", "ls", "rs"} \subseteq queryOk
    /\ localMergedToDelete # {}
    /\ handledRead["local"].reads = {{}}
    /\ Cardinality(remoteStaleToDelete) = 2
    /\ \E seen \in handledRead["remote"].reads : seen # {}
====
